---- MODULE Spec2Model ----
(***************************************************************************)
(* Model of kakadu-dev/nodejs-ijson-helpers:                               *)
(*   src/src/services/query.js   class JsonQuery                           *)
(*   src/src/services/baseDb.js  class BaseConnection                      *)
(*                                                                         *)
(* JavaScript values are tagged records (field k is the typeof/shape tag). *)
(* Strings are sequences of one-character strings, so that substr, trim,   *)
(* includes and split are computed and not assumed.  Numbers are exact     *)
(* multiples of 1/4 (field v counts quarters), so that the non-integer     *)
(* numbers typeof accepts are representable.                               *)
(***************************************************************************)
EXTENDS Integers, Sequences, FiniteSets, TLC

VARIABLES
    config,     \* the raw config the JsonQuery instance was constructed from
    q,          \* the JsonQuery instance: its fields after the constructor
    models,     \* the value the getModels callback returns (null or a registry)
    base,       \* the descriptor object the caller holds and passes to getQuery
    orig,       \* the contents of that object as the caller built it
    call,       \* the last call made on the instance, with its arguments
    ret,        \* what the last call returned (or that it threw)
    instance,   \* BaseConnection.instance (static)
    pc,         \* per prepare() call: the await it is suspended at
    todo,       \* per prepare() call: associations still to run
    registered, \* per prepare() call: how many models it registered
    assocRun,   \* per prepare() call: how many associations it ran
    result      \* per prepare() call: the value its promise settled with

qvars == <<config, q, models, base, orig, call, ret>>
dbvars == <<instance, pc, todo, registered, assocRun, result>>
vars == <<config, q, models, base, orig, call, ret,
          instance, pc, todo, registered, assocRun, result>>

----------------------------------------------------------------------------
(* JavaScript values *)

Quarters == 2 * 2

Undef == [k |-> "undefined"]
Null == [k |-> "null"]
Thrown == [k |-> "TypeError"]
Bool(b) == [k |-> "boolean", v |-> b]
NumQ(n) == [k |-> "number", v |-> n]
Num(i) == NumQ(i * Quarters)
Str(s) == [k |-> "string", v |-> s]
Arr(s) == [k |-> "array", v |-> s, p |-> <<>>]
Obj(f) == [k |-> "object", v |-> f]
Handle(name) == [k |-> "model", v |-> name]

EmptyObj == Obj(<<>>)
EmptyArr == Arr(<<>>)

\* x == null || x === undefined
IsNullish(x) == x.k \in {"undefined", "null"}

\* a ?? b
Coalesce(a, b) == IF IsNullish(a) THEN b ELSE a

\* ToBoolean(x)
Truthy(x) ==
    CASE x.k \in {"undefined", "null"} -> FALSE
      [] x.k = "boolean" -> x.v
      [] x.k = "number" -> x.v # 0
      [] x.k = "string" -> x.v # <<>>
      [] OTHER -> TRUE

\* o[key] for a plain object o
Get(o, key) == IF key \in DOMAIN o.v THEN o.v[key] ELSE Undef

\* o[key] = val
Put(o, key, val) ==
    Obj([x \in DOMAIN o.v \cup {key} |-> IF x = key THEN val ELSE o.v[x]])

Has(o, key) == key \in DOMAIN o.v

----------------------------------------------------------------------------
(* String helpers, on sequences of characters *)

Includes(s, c) == \E i \in 1..Len(s) : s[i] = c

RECURSIVE TrimStart(_, _)
TrimStart(s, chars) ==
    IF s # <<>> /\ Head(s) \in chars THEN TrimStart(Tail(s), chars) ELSE s

RECURSIVE TrimEnd(_, _)
TrimEnd(s, chars) ==
    IF s # <<>> /\ s[Len(s)] \in chars
    THEN TrimEnd(SubSeq(s, 1, Len(s) - 1), chars)
    ELSE s

\* lodash _.trim(s, chars)
Trim(s, chars) == TrimEnd(TrimStart(s, chars), chars)

\* String.prototype.split(sep) for a one-character separator
RECURSIVE Split(_, _)
Split(s, sep) ==
    IF ~Includes(s, sep)
    THEN <<s>>
    ELSE LET i == CHOOSE j \in 1..Len(s) :
                      s[j] = sep /\ \A m \in 1..(j - 1) : s[m] # sep
         IN <<SubSeq(s, 1, i - 1)>> \o Split(SubSeq(s, i + 1, Len(s)), sep)

ASC == <<"A", "S", "C">>
DESC == <<"D", "E", "S", "C">>

----------------------------------------------------------------------------
(* The Filter Translator, JsonQuerySequelize.toQuery (not in src/) *)

\* The canonical key a wire key is translated to.
CanonicalKey(key) ==
    CASE key = "and" -> "$and"
      [] key = "or" -> "$or"
      [] key = "in" -> "$in"
      [] OTHER -> key

RECURSIVE toQuery(_)
toQuery(conditions) ==
    CASE conditions.k = "object" ->
            LET keys == DOMAIN conditions.v
                ckeys == {CanonicalKey(x) : x \in keys}
                src(c) == CHOOSE x \in keys : CanonicalKey(x) = c
            IN Obj([c \in ckeys |-> toQuery(conditions.v[src(c)])])
      [] conditions.k = "array" ->
            Arr([i \in 1..Len(conditions.v) |-> toQuery(conditions.v[i])])
      [] OTHER -> conditions

_parseWhere(conditions) == toQuery(conditions)

_validateAttributes(attributes) == attributes

----------------------------------------------------------------------------
(* JsonQuery: constructor *)

DefaultPage == 1
DefaultPerPage == 20

IsPositiveNumber(x) == x.k = "number" /\ x.v > 0

\* new JsonQuery(config, getModels): the instance's fields
Constructor(cfg) ==
    [page |-> IF IsPositiveNumber(Get(cfg, "page"))
              THEN Get(cfg, "page") ELSE Num(DefaultPage),
     perPage |-> IF IsPositiveNumber(Get(cfg, "perPage"))
                 THEN Get(cfg, "perPage") ELSE Num(DefaultPerPage),
     isAllPage |-> IF Get(cfg, "allPage").k = "boolean"
                   THEN Get(cfg, "allPage").v ELSE FALSE,
     orderBy |-> IF Get(cfg, "orderBy").k = "array"
                 THEN Get(cfg, "orderBy").v ELSE <<>>,
     expands |-> IF Get(cfg, "expands").k = "array"
                 THEN Get(cfg, "expands").v ELSE <<>>,
     attributes |-> IF Get(cfg, "attributes").k = "array"
                    THEN _validateAttributes(Get(cfg, "attributes")).v ELSE <<>>,
     filter |-> _parseWhere(Coalesce(Get(cfg, "filter"), EmptyObj)),
     additionalFilter |->
         _parseWhere(Coalesce(Get(cfg, "additionalFilter"), EmptyObj))]

\* (this.page - 1) * this.perPage
getOffset(self) ==
    NumQ(((self.page.v - Quarters) * self.perPage.v) \div Quarters)

----------------------------------------------------------------------------
(* JsonQuery.getOrderBy *)

\* models[key]: the registry is a plain object keyed by relation name
Lookup(reg, key) == IF key \in DOMAIN reg.v THEN reg.v[key] ELSE Undef

\* mutant: the qualifier is attached whenever the first segment resolves
OrderTerm_noSigil(reg, query) ==
    LET directionDesc == SubSeq(query, 1, 1) = <<"-">>
        orderQuery == Trim(query, {"$", "-"})
        orderSplit == Split(orderQuery, ".")
        column == IF Len(orderSplit) >= 2 THEN orderSplit[2] ELSE orderSplit[1]
        relation == Coalesce(Lookup(reg, orderSplit[1]), Null)
        res == <<Str(column), Str(IF directionDesc THEN DESC ELSE ASC)>>
    IN IF Truthy(relation)
       THEN Arr(<<Obj([model |-> relation, as |-> Str(orderSplit[1])])>> \o res)
       ELSE Arr(res)

\* the .map callback of getOrderBy, for one token
OrderTerm(reg, query) ==
    LET directionDesc == SubSeq(query, 1, 1) = <<"-">>
        isRelatedColumn == Includes(query, "$")
        orderQuery == Trim(query, {"$", "-"})
        orderSplit == Split(orderQuery, ".")
        column == IF Len(orderSplit) >= 2 THEN orderSplit[2] ELSE orderSplit[1]
        relation == Coalesce(Lookup(reg, orderSplit[1]), Null)
        res == <<Str(column), Str(IF directionDesc THEN DESC ELSE ASC)>>
    IN IF isRelatedColumn /\ Truthy(relation)
       THEN Arr(<<Obj([model |-> relation, as |-> Str(orderSplit[1])])>> \o res)
       ELSE Arr(res)

IsToken(s) == s.k = "string" /\ s.v # <<>>

\* getOrderBy(field): an array of terms, or Thrown (models[...] on null)
getOrderBy(self, reg, field) ==
    LET src == IF Truthy(field) THEN field.v ELSE self.orderBy
        toks == SelectSeq(src, IsToken)
    IN IF toks # <<>> /\ reg.k = "null"
       THEN Thrown
       ELSE Arr([i \in 1..Len(toks) |-> OrderTerm(reg, toks[i].v)])

----------------------------------------------------------------------------
(* JsonQuery.getInclude *)

\* models[key] where key is a JavaScript value (only strings name relations)
LookupValue(reg, key) == IF key.k = "string" THEN Lookup(reg, key.v) ELSE Undef

\* mutant: name is tried before modelName
ExpandDescriptor_nameFirst(self, reg, expand) ==
    LET name == Get(expand, "name")
        modelName == Get(expand, "modelName")
        where == Get(expand, "where")
        required == Get(expand, "required")
        limit == Get(expand, "limit")
        separate == Get(expand, "separate")
        order == Get(expand, "order")
        attributes == Get(expand, "attributes")
        keys == {"model", "as"}
                  \cup (IF required.k = "boolean" THEN {"required"} ELSE {})
                  \cup (IF limit.k = "number" THEN {"limit"} ELSE {})
                  \cup (IF separate.k = "boolean" THEN {"separate"} ELSE {})
                  \cup (IF Truthy(order) THEN {"order"} ELSE {})
                  \cup (IF Truthy(attributes) THEN {"attributes"} ELSE {})
                  \cup (IF Truthy(where) THEN {"where"} ELSE {})
        orderTerms == IF order.k = "array"
                      THEN getOrderBy(self, reg, order) ELSE Thrown
    IN IF Truthy(order) /\ orderTerms = Thrown
       THEN Thrown
       ELSE Obj([x \in keys |->
                CASE x = "model" ->
                        IF Truthy(LookupValue(reg, name))
                        THEN LookupValue(reg, name)
                        ELSE LookupValue(reg, modelName)
                  [] x = "as" -> name
                  [] x = "required" -> required
                  [] x = "limit" -> limit
                  [] x = "separate" -> separate
                  [] x = "order" -> orderTerms
                  [] x = "attributes" -> _validateAttributes(attributes)
                  [] x = "where" -> _parseWhere(where)])

\* the object pushed for a structured expand entry that resolves
ExpandDescriptor(self, reg, expand) ==
    LET name == Get(expand, "name")
        modelName == Get(expand, "modelName")
        where == Get(expand, "where")
        required == Get(expand, "required")
        limit == Get(expand, "limit")
        separate == Get(expand, "separate")
        order == Get(expand, "order")
        attributes == Get(expand, "attributes")
        keys == {"model", "as"}
                  \cup (IF required.k = "boolean" THEN {"required"} ELSE {})
                  \cup (IF limit.k = "number" THEN {"limit"} ELSE {})
                  \cup (IF separate.k = "boolean" THEN {"separate"} ELSE {})
                  \cup (IF Truthy(order) THEN {"order"} ELSE {})
                  \cup (IF Truthy(attributes) THEN {"attributes"} ELSE {})
                  \cup (IF Truthy(where) THEN {"where"} ELSE {})
        orderTerms == IF order.k = "array"
                      THEN getOrderBy(self, reg, order) ELSE Thrown
    IN IF Truthy(order) /\ orderTerms = Thrown
       THEN Thrown
       ELSE Obj([x \in keys |->
                CASE x = "model" ->
                        IF Truthy(LookupValue(reg, modelName))
                        THEN LookupValue(reg, modelName)
                        ELSE LookupValue(reg, name)
                  [] x = "as" -> name
                  [] x = "required" -> required
                  [] x = "limit" -> limit
                  [] x = "separate" -> separate
                  [] x = "order" -> orderTerms
                  [] x = "attributes" -> _validateAttributes(attributes)
                  [] x = "where" -> _parseWhere(where)])

\* the forEach callback of getInclude for one entry: the entries it pushes
\* (an array of zero or one), or Thrown
IncludeEntry(self, reg, expand) ==
    CASE expand.k = "string" -> Arr(<<expand>>)
      [] expand.k = "null" -> Thrown
      [] expand.k = "array" -> EmptyArr
      [] expand.k = "object" ->
            LET name == Get(expand, "name")
                modelName == Get(expand, "modelName")
            IN IF ~Truthy(name)
               THEN EmptyArr
               ELSE IF reg.k = "null"
               THEN Thrown
               ELSE IF Truthy(LookupValue(reg, name))
                       \/ Truthy(LookupValue(reg, modelName))
               THEN LET d == ExpandDescriptor(self, reg, expand)
                    IN IF d = Thrown THEN Thrown ELSE Arr(<<d>>)
               ELSE EmptyArr
      [] OTHER -> EmptyArr

\* the forEach loop of getInclude over the entries from index i on
RECURSIVE IncludeFrom(_, _, _, _)
IncludeFrom(self, reg, expands, i) ==
    IF i > Len(expands)
    THEN EmptyArr
    ELSE LET first == IncludeEntry(self, reg, expands[i])
             rest == IncludeFrom(self, reg, expands, i + 1)
         IN IF first = Thrown \/ rest = Thrown
            THEN Thrown
            ELSE Arr(first.v \o rest.v)

\* getInclude(): an array of include entries, or Thrown
getInclude(self, reg) == IncludeFrom(self, reg, self.expands, 1)

----------------------------------------------------------------------------
(* lodash _.merge(object, source), as getQuery uses it *)

RECURSIVE MergeValue(_, _)
RECURSIVE MergeObj(_, _)
RECURSIVE MergeSeq(_, _)

\* the properties of f after merging the properties of g into them
MergeObj(f, g) ==
    [x \in DOMAIN f \cup DOMAIN g |->
        IF x \in DOMAIN g
        THEN MergeValue(IF x \in DOMAIN f THEN f[x] ELSE Undef, g[x])
        ELSE f[x]]

\* the elements of s after merging the elements of t into them, index by index
MergeSeq(s, t) ==
    [i \in 1..(IF Len(s) > Len(t) THEN Len(s) ELSE Len(t)) |->
        IF i <= Len(t)
        THEN MergeValue(IF i <= Len(s) THEN s[i] ELSE Undef, t[i])
        ELSE s[i]]

\* the value a key holds after merging srcValue into objValue
MergeValue(objValue, srcValue) ==
    CASE srcValue.k = "array" ->
            IF objValue.k = "array"
            THEN [k |-> "array", v |-> MergeSeq(objValue.v, srcValue.v),
                  p |-> MergeObj(objValue.p, srcValue.p)]
            ELSE [k |-> "array", v |-> MergeSeq(<<>>, srcValue.v),
                  p |-> MergeObj(<<>>, srcValue.p)]
      [] srcValue.k = "object" ->
            IF objValue.k = "object"
            THEN Obj(MergeObj(objValue.v, srcValue.v))
            ELSE IF objValue.k = "array"
            THEN [k |-> "array", v |-> objValue.v,
                  p |-> MergeObj(objValue.p, srcValue.v)]
            ELSE Obj(MergeObj(<<>>, srcValue.v))
      [] srcValue.k = "undefined" -> objValue
      [] OTHER -> srcValue

Merge(object, source) == MergeValue(object, source)

----------------------------------------------------------------------------
(* JsonQuery.getQuery *)

\* mutant: the singleton-fetch flag loses to a value the base descriptor has
WithPagination_baseFirst(self, queryConfig, isOne) ==
    IF ~self.isAllPage
    THEN Put(Put(queryConfig,
                 "offset", Coalesce(Get(queryConfig, "offset"),
                                    IF isOne THEN Null ELSE getOffset(self))),
             "limit", Coalesce(Get(queryConfig, "limit"),
                               IF isOne THEN Null ELSE self.perPage))
    ELSE queryConfig

\* mutant: the isAllPage guard is lost
WithPagination_noGuard(self, queryConfig, isOne) ==
    Put(Put(queryConfig,
            "offset", IF isOne THEN Null
                      ELSE Coalesce(Get(queryConfig, "offset"), getOffset(self))),
        "limit", IF isOne THEN Null
                 ELSE Coalesce(Get(queryConfig, "limit"), self.perPage))

\* lines 216-219: pagination
WithPagination(self, queryConfig, isOne) ==
    IF ~self.isAllPage
    THEN Put(Put(queryConfig,
                 "offset", IF isOne THEN Null
                           ELSE Coalesce(Get(queryConfig, "offset"), getOffset(self))),
             "limit", IF isOne THEN Null
                      ELSE Coalesce(Get(queryConfig, "limit"), self.perPage))
    ELSE queryConfig

\* line 221: the value assigned to order, or Thrown
OrderValue(self, reg, queryConfig, isOne) ==
    IF isOne THEN Null
    ELSE IF ~IsNullish(Get(queryConfig, "order")) THEN Get(queryConfig, "order")
    ELSE getOrderBy(self, reg, Undef)

\* line 222: the value assigned to include
IncludeValue(queryConfig, resolved) ==
    Merge(Coalesce(Get(queryConfig, "include"), EmptyArr), resolved)

\* lines 224-227: attributes
WithAttributes(self, queryConfig) ==
    LET attributes == Merge(Coalesce(Get(queryConfig, "attributes"), EmptyArr),
                            Arr(self.attributes))
    IN IF Len(attributes.v) > 0
       THEN Put(queryConfig, "attributes", attributes)
       ELSE queryConfig

\* lines 229-239: where
WithWhere(self, queryConfig) ==
    LET c1 == IF Truthy(self.filter)
              THEN Put(queryConfig, "where",
                       Merge(Coalesce(Get(queryConfig, "where"), EmptyObj),
                             Obj([x \in {"$and"} |-> self.filter])))
              ELSE queryConfig
    IN IF Truthy(self.additionalFilter)
       THEN Put(c1, "where",
                Merge(Coalesce(Get(c1, "where"), EmptyObj),
                      Obj([x \in {"$and"} |-> self.additionalFilter])))
       ELSE c1

\* getQuery(queryConfig, isOne): obj is the queryConfig object as the call
\* leaves it; the call returns that same object unless it threw
getQuery(self, reg, queryConfig, isOne) ==
    LET c1 == WithPagination(self, queryConfig, isOne)
        order == OrderValue(self, reg, c1, isOne)
        c2 == Put(c1, "order", order)
        resolved == getInclude(self, reg)
        c3 == Put(c2, "include", IncludeValue(c2, resolved))
    IN IF order = Thrown THEN [thrown |-> TRUE, obj |-> c1]
       ELSE IF resolved = Thrown THEN [thrown |-> TRUE, obj |-> c2]
       ELSE [thrown |-> FALSE, obj |-> WithWhere(self, WithAttributes(self, c3))]

\* toJSON()
toJSON(self, reg) == getQuery(self, reg, EmptyObj, FALSE)

----------------------------------------------------------------------------
(* The calls a client makes on a JsonQuery instance *)

NoCall == [op |-> "none", isOne |-> FALSE, arg |-> Undef]

DbIdle ==
    /\ instance = Null
    /\ pc = <<>>
    /\ todo = <<>>
    /\ registered = <<>>
    /\ assocRun = <<>>
    /\ result = <<>>

\* const query = new JsonQuery(cfg, () => reg); the caller holds the object b
InitOver(Configs, Registries, Bases) ==
    /\ config \in Configs
    /\ q = Constructor(config)
    /\ models \in Registries
    /\ base \in Bases
    /\ orig = base
    /\ call = NoCall
    /\ ret = Undef
    /\ DbIdle

\* query = new JsonQuery(cfg, () => reg), the caller keeping its object
Construct(cfg, reg) ==
    /\ config' = cfg
    /\ q' = Constructor(cfg)
    /\ models' = reg
    /\ call' = [op |-> "new", isOne |-> FALSE, arg |-> Undef]
    /\ ret' = Undef
    /\ UNCHANGED <<base, orig>>
    /\ UNCHANGED dbvars

\* base = b; ret = query.getQuery(base, isOne)
GetQueryNew(b, isOne) ==
    LET res == getQuery(q, models, b, isOne)
    IN /\ orig' = b
       /\ base' = res.obj
       /\ ret' = IF res.thrown THEN Thrown ELSE res.obj
       /\ call' = [op |-> "getQuery", isOne |-> isOne, arg |-> b]
       /\ UNCHANGED <<config, q, models>>
       /\ UNCHANGED dbvars

\* ret = query.getQuery(base, isOne), with the object already held
GetQuerySame(isOne) ==
    LET res == getQuery(q, models, base, isOne)
    IN /\ base' = res.obj
       /\ ret' = IF res.thrown THEN Thrown ELSE res.obj
       /\ call' = [op |-> "getQuerySame", isOne |-> isOne, arg |-> base]
       /\ UNCHANGED <<config, q, models, orig>>
       /\ UNCHANGED dbvars

\* ret = query.toJSON()
ToJSON ==
    LET res == toJSON(q, models)
    IN /\ ret' = IF res.thrown THEN Thrown ELSE res.obj
       /\ call' = [op |-> "toJSON", isOne |-> FALSE, arg |-> EmptyObj]
       /\ UNCHANGED <<config, q, models, base, orig>>
       /\ UNCHANGED dbvars

\* ret = query.getOrderBy(field)
GetOrderBy(field) ==
    /\ ret' = getOrderBy(q, models, field)
    /\ call' = [op |-> "getOrderBy", isOne |-> FALSE, arg |-> field]
    /\ UNCHANGED <<config, q, models, base, orig>>
    /\ UNCHANGED dbvars

\* ret = query.getInclude()
GetInclude ==
    /\ ret' = getInclude(q, models)
    /\ call' = [op |-> "getInclude", isOne |-> FALSE, arg |-> Undef]
    /\ UNCHANGED <<config, q, models, base, orig>>
    /\ UNCHANGED dbvars

\* the calls on one instance, each getQuery with an object of its own
CallsOver(Bases, Fields) ==
    \/ \E b \in Bases, isOne \in BOOLEAN : GetQueryNew(b, isOne)
    \/ ToJSON
    \/ \E field \in Fields : GetOrderBy(field)
    \/ GetInclude

\* a getQuery call (direct, or through toJSON) that returned
Returned == call.op \in {"getQuery", "getQuerySame", "toJSON"} /\ ret # Thrown

\* the object literal with the properties of rec that are not Undef
Literal(rec) == Obj([x \in {y \in DOMAIN rec : rec[y] # Undef} |-> rec[x]])

\* the arrays of at most n elements of S
ArraysOver(S, n) == {Arr(s) : s \in UNION {[1..m -> S] : m \in 0..n}}

----------------------------------------------------------------------------
(* Names used in the inputs *)

Pictures == <<"p", "i", "c">>
Avatar == <<"a", "v">>
Ghost == <<"g", "h">>
Age == <<"a", "g", "e">>
Id == <<"i", "d">>

EmptyRegistry == Obj(<<>>)
PicturesRegistry == Obj(Pictures :> Handle(Pictures) @@ Avatar :> Handle(Avatar))

----------------------------------------------------------------------------
(* Pagination and singleton-fetch: SpecPage *)

MaxPage == 3

RawPages == {Undef, Str(<<"3">>), NumQ(2)} \cup {Num(n) : n \in 0..MaxPage}
RawPerPages == {Undef, NumQ(2), Num(10)}
RawAllPages == {Undef, Bool(TRUE), Bool(FALSE)}
RawOrderBys == {Undef, Arr(<<Str(<<"-">> \o Age)>>)}

PageConfigs ==
    {Literal([page |-> a, perPage |-> b, allPage |-> c, orderBy |-> d]) :
        a \in RawPages, b \in RawPerPages, c \in RawAllPages, d \in RawOrderBys}

PageBases ==
    {Literal([offset |-> a, limit |-> b, order |-> c]) :
        a \in {Undef, Null, Num(0), Num(5)},
        b \in {Undef, Num(7)},
        c \in {Undef, Arr(<<Arr(<<Str(Id), Str(DESC)>>)>>)}}

InitPage == InitOver(PageConfigs, {PicturesRegistry}, {EmptyObj})
NextPage == CallsOver(PageBases, {Undef})
SpecPage == InitPage /\ [][NextPage]_vars

AllPageOn == Get(config, "allPage") = Bool(TRUE)

\* C2 as stated: in singleton-fetch mode the returned descriptor has order,
\* offset and limit all null, for every QuerySpec (either value of allPage)
\* and every base descriptor.
C2_SingletonAllNull ==
    (Returned /\ call.isOne) =>
        /\ Get(ret, "order") = Null
        /\ Get(ret, "offset") = Null
        /\ Get(ret, "limit") = Null

\* C2 as amended: in singleton-fetch mode order is null; offset and limit are
\* null when allPage is not true (overriding the base descriptor's values),
\* and when allPage is true they are exactly as the base descriptor has them
\* (absent if it has none).
C2_SingletonNullUnlessAllPage ==
    (Returned /\ call.isOne) =>
        /\ Get(ret, "order") = Null
        /\ ~AllPageOn => Get(ret, "offset") = Null /\ Get(ret, "limit") = Null
        /\ AllPageOn =>
              \A key \in {"offset", "limit"} :
                  /\ Has(ret, key) = Has(call.arg, key)
                  /\ Get(ret, key) = Get(call.arg, key)

C2_Witness ==
    /\ Returned /\ call.isOne /\ ~AllPageOn
    /\ q.orderBy # <<>>
    /\ Get(call.arg, "offset") = Num(5)
    /\ Get(call.arg, "limit") = Num(7)
    /\ Get(call.arg, "order") # Undef
    /\ Get(ret, "offset") = Null

\* C3: if allPage is true and the base descriptor carries no offset/limit, the
\* returned descriptor has no offset field and no limit field, for every page
\* and perPage and both values of the singleton-fetch flag.
C3_AllPageOmitsPagination ==
    (Returned /\ AllPageOn /\ ~Has(call.arg, "offset") /\ ~Has(call.arg, "limit")) =>
        ~Has(ret, "offset") /\ ~Has(ret, "limit")

C3_Witness ==
    /\ Returned /\ AllPageOn /\ call.isOne
    /\ ~Has(call.arg, "offset") /\ ~Has(call.arg, "limit")
    /\ Get(config, "page") = Num(MaxPage)
    /\ Get(config, "perPage") = Num(10)
    /\ ~Has(ret, "offset")

IsPositiveInteger(x) == x.k = "number" /\ x.v > 0 /\ x.v % Quarters = 0

\* C4: when allPage is false and singleton-fetch is false, offset = the base
\* offset if given (including 0) else (page-1)*perPage, and limit = the base
\* limit if given else perPage, where page and perPage are the configured
\* values when they are positive integers and otherwise 1 and 20; hence
\* page >= 1, perPage >= 1 and the computed offset >= 0 for every raw config.
C4_PaginationFromPositiveIntegers ==
    LET page == IF IsPositiveInteger(Get(config, "page"))
                THEN Get(config, "page") ELSE Num(DefaultPage)
        perPage == IF IsPositiveInteger(Get(config, "perPage"))
                   THEN Get(config, "perPage") ELSE Num(DefaultPerPage)
        computed == NumQ(((page.v - Quarters) * perPage.v) \div Quarters)
    IN (Returned /\ ~q.isAllPage /\ ~call.isOne) =>
          /\ Get(ret, "offset") = Coalesce(Get(call.arg, "offset"), computed)
          /\ Get(ret, "limit") = Coalesce(Get(call.arg, "limit"), perPage)
          /\ q.page = page /\ q.perPage = perPage
          /\ q.page.v >= Quarters /\ q.perPage.v >= Quarters
          /\ getOffset(q).v >= 0

----------------------------------------------------------------------------
(* Filter composition: SpecWhere *)

MaxValue == 2

Fields == {"a", "b"}
Values == 1..MaxValue

Eq(field, value) == Obj(field :> Num(value))

\* the filter expressions a request carries as filter or additionalFilter
WireFilters ==
    {Undef, EmptyObj}
      \cup {Eq(field, value) : field \in Fields, value \in Values}
      \cup {Obj("a" :> Obj("in" :> Arr(<<Num(value)>>))) : value \in Values}
      \cup {Obj("a" :> Obj("$in" :> Arr([i \in 1..MaxValue |-> Num(i)])))}
      \cup {Obj("or" :> Arr(<<Eq("a", 1), Eq("b", 1)>>)),
            Obj("$or" :> Arr(<<Eq("b", MaxValue)>>))}

WhereConfigs ==
    {Literal([filter |-> f, additionalFilter |-> g]) :
        f \in WireFilters, g \in WireFilters}

WhereBases ==
    {Literal([where |-> w]) :
        w \in {Undef, EmptyObj, Eq("b", 1), Obj("$and" :> Eq("a", 1))}}

InitWhere == InitOver(WhereConfigs, {PicturesRegistry}, {EmptyObj})
NextWhere == CallsOver(WhereBases, {Undef})
SpecWhere == InitWhere /\ [][NextWhere]_vars

\* the records a predicate is evaluated on
Records == [Fields -> {Num(value) : value \in 0..MaxValue}]

\* whether a record satisfies a predicate of the backend representation: an
\* object is the conjunction of its keys, $and a conjunction, $or a
\* disjunction of its operands, a field a comparison
RECURSIVE Sat(_, _)
RECURSIVE SatKey(_, _, _)
Sat(rec, pred) ==
    CASE pred.k = "object" -> \A key \in DOMAIN pred.v : SatKey(rec, key, pred.v[key])
      [] pred.k = "array" -> \A i \in 1..Len(pred.v) : Sat(rec, pred.v[i])
      [] OTHER -> FALSE

SatKey(rec, key, val) ==
    CASE key = "$and" -> Sat(rec, val)
      [] key = "$or" ->
            IF val.k = "array"
            THEN \E i \in 1..Len(val.v) : Sat(rec, val.v[i])
            ELSE val.k = "object" /\ \E x \in DOMAIN val.v : SatKey(rec, x, val.v[x])
      [] key \in Fields ->
            IF val.k = "object"
            THEN \A op \in DOMAIN val.v :
                    op = "$in" /\ val.v[op].k = "array"
                    /\ \E i \in 1..Len(val.v[op].v) : val.v[op].v[i] = rec[key]
            ELSE val = rec[key]
      [] OTHER -> FALSE

\* C1: the where of the descriptor getQuery returns is satisfied only by
\* records that satisfy the base where-predicate, the translated filter and
\* the translated additionalFilter, all three.
C1_WhereIsConjunction ==
    Returned =>
        \A rec \in Records :
            Sat(rec, Get(ret, "where")) =>
                /\ Sat(rec, Coalesce(Get(call.arg, "where"), EmptyObj))
                /\ Sat(rec, q.filter)
                /\ Sat(rec, q.additionalFilter)

----------------------------------------------------------------------------
(* include and attributes: SpecList *)

MaxList == 2

ListConfigs ==
    {Literal([attributes |-> a, expands |-> e]) :
        a \in ArraysOver({Str(Id), Str(Age)}, MaxList),
        e \in ArraysOver({Str(Pictures), Str(Avatar)}, MaxList)}

ListBases ==
    {Literal([attributes |-> a, include |-> i]) :
        a \in {Undef} \cup ArraysOver({Str(Id)}, MaxList),
        i \in {Undef} \cup ArraysOver({Str(Ghost)}, MaxList)}

InitList == InitOver(ListConfigs, {PicturesRegistry}, {EmptyObj})
NextList == CallsOver(ListBases, {Undef})
SpecList == InitList /\ [][NextList]_vars

\* C5: include is the base descriptor's include entries followed by the
\* Expand Resolver output, and attributes is the base attributes followed by
\* the QuerySpec attributes (present when non-empty): every entry of both
\* lists appears and the length is the sum of both lengths.
C5_ListsAreConcatenated ==
    LET baseInclude == Coalesce(Get(call.arg, "include"), EmptyArr).v
        baseAttributes == Coalesce(Get(call.arg, "attributes"), EmptyArr).v
        attributes == baseAttributes \o q.attributes
    IN Returned =>
          /\ Get(ret, "include").v = baseInclude \o getInclude(q, models).v
          /\ attributes # <<>> => Get(ret, "attributes") = Arr(attributes)
          /\ attributes = <<>> => Get(ret, "attributes") = Get(call.arg, "attributes")

----------------------------------------------------------------------------
(* Sort tokens: SpecOrder *)

MaxTokens == 2

Dot(a, b) == a \o <<".">> \o b
Sigil(a) == <<"$">> \o a \o <<"$">>
Minus(a) == <<"-">> \o a

\* orderBy entries: "age", "-age", "$pic.age$", "$gh.age$", "pic.age",
\* "$pic$", "-$pic.age$", "", and two entries that are not strings
OrderEntries ==
    {Str(Age), Str(Minus(Age)), Str(Sigil(Dot(Pictures, Age))),
     Str(Sigil(Dot(Ghost, Age))), Str(Dot(Pictures, Age)), Str(Sigil(Pictures)),
     Str(Minus(Sigil(Dot(Pictures, Age)))), Str(<<>>), Num(1), Null}

OrderConfigs ==
    {Literal([orderBy |-> o]) : o \in ArraysOver(OrderEntries, MaxTokens)}

OrderFields == {Undef, EmptyArr, Arr(<<Str(Sigil(Dot(Avatar, Id)))>>)}

InitOrder ==
    InitOver(OrderConfigs, {Null, EmptyRegistry, PicturesRegistry}, {EmptyObj})
NextOrder == CallsOver({EmptyObj}, OrderFields)
SpecOrder == InitOrder /\ [][NextOrder]_vars

\* the tokens a getOrderBy call was given: its argument, else orderBy
GivenTokens == IF Truthy(call.arg) THEN call.arg.v ELSE q.orderBy

StringTokens == SelectSeq(GivenTokens, IsToken)

Segments(token) == Split(Trim(token, {"$", "-"}), ".")

Resolves(name) == models.k = "object" /\ name \in DOMAIN models.v

\* the term for a token: qualified iff the predicate says so
TermIs(term, token, qualified) ==
    LET segs == Segments(token)
        column == IF Len(segs) >= 2 THEN segs[2] ELSE segs[1]
        direction == IF Head(token) = "-" THEN DESC ELSE ASC
    IN IF qualified
       THEN term = Arr(<<Obj([model |-> models.v[segs[1]], as |-> Str(segs[1])]),
                         Str(column), Str(direction)>>)
       ELSE term = Arr(<<Str(column), Str(direction)>>)

\* C7 as stated, given a Model Registry: one term per non-empty string token,
\* in order, none failing; the relation qualifier is attached exactly when a
\* second segment is present and the first segment resolves in the registry.
C7_QualifiedWhenSecondSegment ==
    (call.op = "getOrderBy" /\ models.k = "object") =>
        /\ ret.k = "array"
        /\ Len(ret.v) = Len(StringTokens)
        /\ \A i \in 1..Len(StringTokens) :
              LET token == StringTokens[i].v
              IN TermIs(ret.v[i], token,
                        Len(Segments(token)) >= 2 /\ Resolves(Segments(token)[1]))

\* C7 as amended: given a Model Registry, one term per non-empty string token,
\* in order, none failing, with direction and column as stated; the relation
\* qualifier is attached exactly when the token contains '$' and its first
\* segment resolves in the registry.  When the registry callback returns null
\* (the constructor's default), the call throws iff there is such a token.
C7_QualifiedWhenSigil ==
    (call.op = "getOrderBy") =>
        IF models.k = "object"
        THEN /\ ret.k = "array"
             /\ Len(ret.v) = Len(StringTokens)
             /\ \A i \in 1..Len(StringTokens) :
                   LET token == StringTokens[i].v
                   IN TermIs(ret.v[i], token,
                             Includes(token, "$") /\ Resolves(Segments(token)[1]))
        ELSE (ret = Thrown) = (StringTokens # <<>>)

C7_Witness ==
    /\ call.op = "getOrderBy" /\ models = PicturesRegistry
    /\ GivenTokens = <<Str(Dot(Pictures, Age)), Str(Minus(Sigil(Dot(Pictures, Age))))>>
    /\ Len(ret.v) = 2
    /\ Len(ret.v[1].v) = 2
    /\ Len(ret.v[2].v) = 3

----------------------------------------------------------------------------
(* Expand entries: SpecExpand *)

MaxExpands == 2

\* {name: "pic", limit: 5, required: true}
ExpandLimited ==
    Literal([name |-> Str(Pictures), limit |-> Num(5), required |-> Bool(TRUE)])

\* {name: "gh"}
ExpandGhost == Literal([name |-> Str(Ghost)])

\* {name: "pic", modelName: "av", separate: false}
ExpandRenamed ==
    Literal([name |-> Str(Pictures), modelName |-> Str(Avatar),
             separate |-> Bool(FALSE)])

\* {name: "gh", modelName: "av", limit: "5", required: 1}
ExpandMistyped ==
    Literal([name |-> Str(Ghost), modelName |-> Str(Avatar),
             limit |-> Str(<<"5">>), required |-> Num(1)])

\* {modelName: "av"}
ExpandNameless == Literal([modelName |-> Str(Avatar)])

\* {name: "pic", modelName: "gh", order: ["-age"], where: {a: 1}, attributes: ["id"]}
ExpandScoped ==
    Literal([name |-> Str(Pictures), modelName |-> Str(Ghost),
             order |-> Arr(<<Str(Minus(Age))>>), where |-> Eq("a", 1),
             attributes |-> Arr(<<Str(Id)>>)])

ExpandEntries ==
    {Str(Pictures), Str(Ghost), ExpandLimited, ExpandGhost, ExpandRenamed,
     ExpandMistyped, ExpandNameless, ExpandScoped,
     Num(1), Arr(<<Str(Pictures)>>), Bool(TRUE), Null}

ExpandConfigs ==
    {Literal([expands |-> e]) : e \in ArraysOver(ExpandEntries, MaxExpands)}

InitExpand ==
    InitOver(ExpandConfigs, {Null, EmptyRegistry, PicturesRegistry}, {EmptyObj})
NextExpand == CallsOver({EmptyObj}, {Undef})
SpecExpand == InitExpand /\ [][NextExpand]_vars

ResolvesValue(key) == key.k = "string" /\ Resolves(key.v)

\* whether an expand entry is to contribute an include entry
Yields(expand) ==
    \/ expand.k = "string"
    \/ /\ expand.k = "object"
       /\ Truthy(Get(expand, "name"))
       /\ ResolvesValue(Get(expand, "name")) \/ ResolvesValue(Get(expand, "modelName"))

\* whether include entry d is what expand entry e is to contribute
Describes(d, e) ==
    IF e.k = "string"
    THEN d = e
    ELSE /\ d.k = "object"
         /\ Get(d, "model") = IF ResolvesValue(Get(e, "modelName"))
                              THEN models.v[Get(e, "modelName").v]
                              ELSE models.v[Get(e, "name").v]
         /\ Get(d, "as") = Get(e, "name")
         /\ \A opt \in {<<"required", "boolean">>, <<"limit", "number">>,
                        <<"separate", "boolean">>} :
               /\ Has(d, opt[1]) = (Get(e, opt[1]).k = opt[2])
               /\ Has(d, opt[1]) => Get(d, opt[1]) = Get(e, opt[1])

\* ret lists, in order, what the yielding entries of expands contribute
IncludeIsAsDescribed ==
    LET kept == SelectSeq(q.expands, Yields)
    IN /\ ret.k = "array"
       /\ Len(ret.v) = Len(kept)
       /\ \A i \in 1..Len(kept) : Describes(ret.v[i], kept[i])

\* C8: given a Model Registry, an expand entry that is neither a plain string
\* nor a structured object with a name (a number, an array, null) raises no
\* error in getInclude, getQuery or toJSON and contributes nothing, the other
\* entries of the sequence being processed as usual.
C8_OtherShapesDropped ==
    models.k = "object" =>
        /\ call.op = "getInclude" => IncludeIsAsDescribed
        /\ call.op \in {"getQuery", "toJSON"} => ret # Thrown

----------------------------------------------------------------------------
(* One descriptor object passed to several calls: SpecReuse *)

ReuseConfigs ==
    {EmptyObj,
     Literal([page |-> Num(MaxPage), perPage |-> Num(10)]),
     Literal([allPage |-> Bool(TRUE), attributes |-> Arr(<<Str(Id)>>)]),
     Literal([filter |-> Eq("a", 1), additionalFilter |-> Eq("b", 1)])}

ReuseBases == {EmptyObj, Literal([offset |-> Num(5)])}

InitReuse == InitOver(ReuseConfigs, {PicturesRegistry}, ReuseBases)

NextReuse ==
    \/ \E cfg \in ReuseConfigs : Construct(cfg, PicturesRegistry)
    \/ \E isOne \in BOOLEAN : GetQuerySame(isOne)
    \/ CallsOver(ReuseBases, {Undef})

SpecReuse == InitReuse /\ [][NextReuse]_vars

\* C6: getQuery has no side effect on its inputs: the QuerySpec fields are
\* unchanged, the caller's base descriptor object is not modified in place,
\* and a call that passes the same object again returns what it would return
\* for an untouched copy of the original base descriptor.
C6_NoSideEffect ==
    call.op \in {"getQuery", "getQuerySame"} =>
        /\ q = Constructor(config)
        /\ base = orig
        /\ ret # Thrown => ret = getQuery(q, models, orig, call.isOne).obj

----------------------------------------------------------------------------
(* BaseConnection.prepare: SpecDb *)

MaxCalls == 3

\* the prepare() calls; each passes the same models, every one with an
\* associate function, and a config whose host is plain or an SRV name
Callers == 1..MaxCalls
ModelNames == <<"user", "picture">>
Hosts == {"db", "db.srv"}

QueryIdle ==
    /\ config = EmptyObj
    /\ q = Constructor(EmptyObj)
    /\ models = Null
    /\ base = EmptyObj
    /\ orig = EmptyObj
    /\ call = NoCall
    /\ ret = Undef

InitDb ==
    /\ instance = Null
    /\ pc = [c \in Callers |-> "idle"]
    /\ todo = [c \in Callers |-> <<>>]
    /\ registered = [c \in Callers |-> 0]
    /\ assocRun = [c \in Callers |-> 0]
    /\ result = [c \in Callers |-> "pending"]
    /\ QueryIdle

\* getInstance(config): the singleton, created on first use
getInstance(cfg) ==
    IF instance = Null
    THEN [k |-> "connection", config |-> cfg, db |-> EmptyObj, models |-> <<>>]
    ELSE instance

\* connection.addModel(name, model) for every entry of models, by caller c
addModels(connection, c) ==
    [connection EXCEPT !.models =
        [name \in {ModelNames[i] : i \in 1..Len(ModelNames)} |-> c]]

\* prepare() is called and runs to its first await (lines 45-49)
Prepare(c, host) ==
    /\ pc[c] = "idle"
    /\ IF instance # Null
       THEN /\ pc' = [pc EXCEPT ![c] = "done"]
            /\ result' = [result EXCEPT ![c] = "false"]
            /\ todo' = todo
       ELSE /\ pc' = [pc EXCEPT ![c] = "handleSRV"]
            /\ result' = result
            /\ todo' = [todo EXCEPT ![c] = <<host>>]
    /\ UNCHANGED <<instance, registered, assocRun>>
    /\ UNCHANGED qvars

\* handleSRV resolved: getInstance, then await checkDatabaseExist (lines 50-52)
SrvResolved(c) ==
    /\ pc[c] = "handleSRV"
    /\ instance' = getInstance([host |-> todo[c][1]])
    /\ pc' = [pc EXCEPT ![c] = "checkDatabaseExist"]
    /\ todo' = [todo EXCEPT ![c] = <<>>]
    /\ UNCHANGED <<registered, assocRun, result>>
    /\ UNCHANGED qvars

\* handleSRV rejected (dns.resolveSrv failed): prepare rejects (lines 49, 157)
SrvRejected(c) ==
    /\ pc[c] = "handleSRV"
    /\ todo[c] = <<"db.srv">>
    /\ pc' = [pc EXCEPT ![c] = "done"]
    /\ result' = [result EXCEPT ![c] = "rejected"]
    /\ todo' = [todo EXCEPT ![c] = <<>>]
    /\ UNCHANGED <<instance, registered, assocRun>>
    /\ UNCHANGED qvars

\* checkDatabaseExist resolved: the models are registered and the first
\* association is started (lines 54-74)
DbChecked(c) ==
    /\ pc[c] = "checkDatabaseExist"
    /\ instance' = addModels(instance, c)
    /\ registered' = [registered EXCEPT ![c] = Len(ModelNames)]
    /\ assocRun' = [assocRun EXCEPT ![c] = 1]
    /\ todo' = [todo EXCEPT ![c] = Tail(ModelNames)]
    /\ pc' = [pc EXCEPT ![c] = "associate"]
    /\ UNCHANGED result
    /\ UNCHANGED qvars

\* an association resolved: the next one is started, or prepare returns
\* {db, insertDefaults} (lines 73-88)
AssocResolved(c) ==
    /\ pc[c] = "associate"
    /\ IF todo[c] # <<>>
       THEN /\ assocRun' = [assocRun EXCEPT ![c] = @ + 1]
            /\ todo' = [todo EXCEPT ![c] = Tail(@)]
            /\ UNCHANGED <<pc, result>>
       ELSE /\ pc' = [pc EXCEPT ![c] = "done"]
            /\ result' = [result EXCEPT ![c] = "object"]
            /\ UNCHANGED <<assocRun, todo>>
    /\ UNCHANGED <<instance, registered>>
    /\ UNCHANGED qvars

NextDb ==
    \/ \E c \in Callers, host \in Hosts : Prepare(c, host)
    \/ \E c \in Callers : SrvResolved(c)
    \/ \E c \in Callers : SrvRejected(c)
    \/ \E c \in Callers : DbChecked(c)
    \/ \E c \in Callers : AssocResolved(c)

SpecDb == InitDb /\ [][NextDb]_vars

Initialised(c) == registered[c] > 0 \/ assocRun[c] > 0

\* C10: for any number of prepare calls and any interleaving of them, at most
\* one call performs initialisation (registers the models, runs the
\* associations) and returns {db, insertDefaults}; a call that returns false
\* has registered no model and run no association.
C10_AtMostOneInitialisation ==
    /\ Cardinality({c \in Callers : Initialised(c)}) <= 1
    /\ Cardinality({c \in Callers : result[c] = "object"}) <= 1
    /\ \A c \in Callers : result[c] = "false" => ~Initialised(c)

====
